---- MODULE Spec2Model ----
(***************************************************************************)
(* Model of classes/Systems.py: the plants Trolley and                     *)
(* ContinuousTankHeating behind the abstract base class BaseSystem.        *)
(*                                                                         *)
(* Every field of a plant is a 0-dimensional float32 torch tensor.  A      *)
(* value is modelled as a pair <<m, e>> standing for m * 2^e, with m odd   *)
(* (or <<0, 0>> for zero) and |m| < 2^24: a binary32 number with its       *)
(* 24-bit significand.  Every arithmetic operator rounds its exact result  *)
(* to nearest, ties to even, as the tensor operation does.  The exponent   *)
(* range (overflow to inf, subnormals) is not modelled; the bounds keep    *)
(* every value well inside it.  A product is formed exactly before it is   *)
(* rounded, so one factor of each product must have a short significand    *)
(* (the constants 50, 2, 1/4, 1/2 and the chosen dt and friction do).      *)
(*                                                                         *)
(* Three specifications:                                                   *)
(*   Spec      a caller picks a class, calls its constructor and drives    *)
(*             the object; the constructor goes through ABCMeta, which     *)
(*             refuses a class that leaves an abstract method undefined.   *)
(*   SpecTank  the bodies of ContinuousTankHeating.__init__, update and    *)
(*             get_position acting on an object's fields, whatever way     *)
(*             the object came to exist (the instantiation check is in     *)
(*             Spec, not here).                                            *)
(*   SpecTwin  two objects stepped side by side with equal control values  *)
(*             and unequal disturbance values.                             *)
(***************************************************************************)
EXTENDS Integers, Sequences, FiniteSets, TLC

\* ------------------------------------------------------------------------
\* float32 arithmetic of torch tensors
\* ------------------------------------------------------------------------

\* number of significand bits of a float32 tensor element
SigBits == 24

\* working width of the exact intermediate of an addition
WorkBits == 29

Abs(n) == IF n < 0 THEN -n ELSE n

Sgn(n) == IF n < 0 THEN -1 ELSE 1

Min(a, b) == IF a < b THEN a ELSE b

Max(a, b) == IF a > b THEN a ELSE b

RECURSIVE Bits(_)
\* bit length of a natural number
Bits(n) == IF n = 0 THEN 0 ELSE 1 + Bits(n \div 2)

RECURSIVE Norm(_, _)
\* canonical form of m * 2^e: odd significand, zero as <<0, 0>>
Norm(m, e) ==
    IF m = 0 THEN <<0, 0>>
    ELSE IF m % 2 = 0 THEN Norm(m \div 2, e + 1)
    ELSE <<m, e>>

\* sign * (a + f) * 2^e rounded to SigBits bits, nearest, ties to even;
\* a >= 0, and 0 < f < 1 when sticky, f = 0 otherwise (sticky only comes
\* with an a of more than SigBits bits)
Round(sign, a, e, sticky) ==
    LET k == Bits(a) - SigBits IN
    IF k <= 0 THEN Norm(sign * a, e)
    ELSE LET q    == a \div (2^k)
             r    == a % (2^k)
             half == 2^(k - 1)
             up   == \/ r > half
                     \/ r = half /\ (sticky \/ q % 2 = 1)
         IN Norm(sign * (IF up THEN q + 1 ELSE q), e + k)

\* a float32 holding the integer n
Flt(n) == Round(Sgn(n), Abs(n), 0, FALSE)

Zero == <<0, 0>>

FNeg(x) == <<-x[1], x[2]>>

\* position of the bit above the leading bit of x
Top(x) == Bits(Abs(x[1])) + x[2]

\* widest shift an integer of the model is divided by
MaxShift == 30

\* floor(m / 2^k), k >= 0
ShiftDown(m, k) ==
    IF k > MaxShift THEN (IF m < 0 THEN -1 ELSE 0) ELSE m \div (2^k)

\* whether ShiftDown(m, k) dropped nonzero bits
Dropped(m, k) ==
    IF k > MaxShift THEN m # 0 ELSE m % (2^k) # 0

\* x + y
FAdd(x, y) ==
    IF x[1] = 0 THEN y
    ELSE IF y[1] = 0 THEN x
    ELSE LET ew   == Max(Min(x[2], y[2]), Max(Top(x), Top(y)) - WorkBits)
             \* the operand's significand at exponent ew, rounded down
             At(z) == IF z[2] >= ew THEN z[1] * 2^(z[2] - ew)
                      ELSE ShiftDown(z[1], ew - z[2])
             Lost(z) == z[2] < ew /\ Dropped(z[1], ew - z[2])
             s    == At(x) + At(y)
             st   == Lost(x) \/ Lost(y)
         IN IF s >= 0 THEN Round(1, s, ew, st)
            ELSE IF st THEN Round(-1, -s - 1, ew, TRUE)
            ELSE Round(-1, -s, ew, FALSE)

\* x - y
FSub(x, y) == FAdd(x, FNeg(y))

\* x * y
FMul(x, y) ==
    Round(Sgn(x[1]) * Sgn(y[1]), Abs(x[1]) * Abs(y[1]), x[2] + y[2], FALSE)

RECURSIVE LongDiv(_, _, _, _)
\* quotient digits of r/d appended to q until q has SigBits + 2 bits
LongDiv(q, r, d, e) ==
    IF r = 0 \/ q >= 2^(SigBits + 1) THEN <<q, r, e>>
    ELSE LongDiv(2 * q + ((2 * r) \div d), (2 * r) % d, d, e - 1)

\* x / y, y nonzero
FDiv(x, y) ==
    LET n == Abs(x[1])
        d == Abs(y[1])
        l == LongDiv(n \div d, n % d, d, x[2] - y[2])
    IN Round(Sgn(x[1]) * Sgn(y[1]), l[1], l[3], l[2] # 0)

\* x <= y
FLeq(x, y) == FSub(y, x)[1] >= 0

\* x < y
FLess(x, y) == FSub(y, x)[1] > 0

\* ------------------------------------------------------------------------
\* class BaseSystem(ABC) and instantiation
\* ------------------------------------------------------------------------

\* the @abstractmethod names of BaseSystem
BaseSystemAbstract == {"apply_control", "get_position"}

\* the methods each subclass defines in its own body
ClassMethods(cls) ==
    IF cls = "Trolley"
    THEN {"__init__", "apply_control", "get_position", "get_U", "reset"}
    ELSE {"__init__", "update", "get_position"}

\* __abstractmethods__ of a subclass: what it inherits and does not override
AbstractMethods(cls) == BaseSystemAbstract \ ClassMethods(cls)

\* ABCMeta lets cls(...) return an object only when nothing is abstract;
\* otherwise the call raises TypeError before __init__ runs
Instantiable(cls) == AbstractMethods(cls) = {}

\* ------------------------------------------------------------------------
\* class Trolley
\* ------------------------------------------------------------------------

Trolley_init(mass, friction, dt) ==
    [class           |-> "Trolley",
     mass            |-> mass,
     friction        |-> friction,
     spring_constant |-> Flt(50),
     dt              |-> dt,
     position        |-> Zero,
     delta_position  |-> Zero,
     velocity        |-> Zero,
     F               |-> Flt(50)]

\* variants of apply_control with one slip each

\* the position is advanced with the velocity from before the update
Trolley_apply_control_OldVelocity(s, control_output, distrubance) ==
    LET F            == control_output
        acceleration == FSub(FSub(FDiv(F, s.mass),
                                  FDiv(FMul(s.friction, s.velocity), s.mass)),
                             FDiv(FMul(s.spring_constant, s.delta_position), s.mass))
        velocity     == FAdd(s.velocity, FMul(acceleration, s.dt))
        position     == FAdd(s.position, FMul(s.velocity, s.dt))
    IN [s EXCEPT !.velocity       = velocity,
                 !.delta_position = FSub(position, s.position),
                 !.position       = position]

\* self.position is overwritten before delta_position is taken
Trolley_apply_control_DeltaAfterStore(s, control_output, distrubance) ==
    LET F            == control_output
        acceleration == FSub(FSub(FDiv(F, s.mass),
                                  FDiv(FMul(s.friction, s.velocity), s.mass)),
                             FDiv(FMul(s.spring_constant, s.delta_position), s.mass))
        velocity     == FAdd(s.velocity, FMul(acceleration, s.dt))
        position     == FAdd(s.position, FMul(velocity, s.dt))
    IN [s EXCEPT !.velocity       = velocity,
                 !.delta_position = FSub(position, position),
                 !.position       = position]

\* the force is the stored self.F, not the argument
Trolley_apply_control_StoredF(s, control_output, distrubance) ==
    LET F            == s.F
        acceleration == FSub(FSub(FDiv(F, s.mass),
                                  FDiv(FMul(s.friction, s.velocity), s.mass)),
                             FDiv(FMul(s.spring_constant, s.delta_position), s.mass))
        velocity     == FAdd(s.velocity, FMul(acceleration, s.dt))
        position     == FAdd(s.position, FMul(velocity, s.dt))
    IN [s EXCEPT !.velocity       = velocity,
                 !.delta_position = FSub(position, s.position),
                 !.position       = position]

\* the acceleration of the docstring, a = F/m - friction*v/m, no spring term
Trolley_apply_control_NoSpring(s, control_output, distrubance) ==
    LET F            == control_output
        acceleration == FSub(FDiv(F, s.mass),
                             FDiv(FMul(s.friction, s.velocity), s.mass))
        velocity     == FAdd(s.velocity, FMul(acceleration, s.dt))
        position     == FAdd(s.position, FMul(velocity, s.dt))
    IN [s EXCEPT !.velocity       = velocity,
                 !.delta_position = FSub(position, s.position),
                 !.position       = position]

\* the disturbance is added to the force
Trolley_apply_control_AddsDisturbance(s, control_output, distrubance) ==
    LET F            == FAdd(control_output, distrubance)
        acceleration == FSub(FSub(FDiv(F, s.mass),
                                  FDiv(FMul(s.friction, s.velocity), s.mass)),
                             FDiv(FMul(s.spring_constant, s.delta_position), s.mass))
        velocity     == FAdd(s.velocity, FMul(acceleration, s.dt))
        position     == FAdd(s.position, FMul(velocity, s.dt))
    IN [s EXCEPT !.velocity       = velocity,
                 !.delta_position = FSub(position, s.position),
                 !.position       = position]

Trolley_apply_control(s, control_output, distrubance) ==
    LET F            == control_output
        acceleration == FSub(FSub(FDiv(F, s.mass),
                                  FDiv(FMul(s.friction, s.velocity), s.mass)),
                             FDiv(FMul(s.spring_constant, s.delta_position), s.mass))
        velocity     == FAdd(s.velocity, FMul(acceleration, s.dt))
        position     == FAdd(s.position, FMul(velocity, s.dt))
    IN [s EXCEPT !.velocity       = velocity,
                 !.delta_position = FSub(position, s.position),
                 !.position       = position]

Trolley_get_position(s) == s.position

\* get_U with the velocity field as its second element
Trolley_get_U_TrueVelocity(s) ==
    <<s.position, s.velocity, FDiv(s.position, FMul(s.dt, s.dt))>>

Trolley_get_U(s) ==
    <<s.position, FDiv(s.position, s.dt), FDiv(s.position, FMul(s.dt, s.dt))>>

\* reset that leaves delta_position as it is
Trolley_reset_KeepsDelta(s) ==
    [s EXCEPT !.position = Flt(0), !.velocity = Flt(0)]

Trolley_reset(s) ==
    [s EXCEPT !.position = Flt(0), !.velocity = Flt(0), !.delta_position = Flt(0)]

\* ------------------------------------------------------------------------
\* class ContinuousTankHeating
\* ------------------------------------------------------------------------

Tank_init(dt) ==
    [class   |-> "ContinuousTankHeating",
     dt      |-> dt,
     Tf      |-> Flt(300),
     T       |-> Flt(300),
     epsilon |-> Flt(1),
     tau     |-> Flt(4),
     Q       |-> Flt(2)]

\* update with 1/tau * Tf - T in place of 1/tau * (Tf - T)
Tank_update_Unparenthesised(s, control_output, distrubance) ==
    LET Tq   == control_output
        dTdt == FMul(FDiv(Flt(1), FAdd(Flt(1), s.epsilon)),
                     FAdd(FSub(FMul(FDiv(Flt(1), s.tau), s.Tf), s.T),
                          FMul(s.Q, FSub(Tq, s.T))))
    IN [s EXCEPT !.T = FAdd(s.T, FMul(dTdt, s.dt))]

\* update that adds dTdt without the time step
Tank_update_NoDt(s, control_output, distrubance) ==
    LET Tq   == control_output
        dTdt == FMul(FDiv(Flt(1), FAdd(Flt(1), s.epsilon)),
                     FAdd(FMul(FDiv(Flt(1), s.tau), FSub(s.Tf, s.T)),
                          FMul(s.Q, FSub(Tq, s.T))))
    IN [s EXCEPT !.T = FAdd(s.T, dTdt)]

Tank_update(s, control_output, distrubance) ==
    LET Tq   == control_output
        dTdt == FMul(FDiv(Flt(1), FAdd(Flt(1), s.epsilon)),
                     FAdd(FMul(FDiv(Flt(1), s.tau), FSub(s.Tf, s.T)),
                          FMul(s.Q, FSub(Tq, s.T))))
    IN [s EXCEPT !.T = FAdd(s.T, FMul(dTdt, s.dt))]

Tank_get_position(s) == s.T

\* ------------------------------------------------------------------------
\* inputs and bounds
\* ------------------------------------------------------------------------

\* calls to apply_control and reset logged in one run
MaxCalls == 5

\* calls to update logged in one run of the tank alone
MaxTankCalls == 10

\* steps of the paired runs
MaxTwinCalls == 4

Half == <<1, -1>>

Masses == {Flt(1), Flt(2), Flt(3)}

Frictions == {Flt(0), Flt(1)}

TrolleyDts == {Flt(1), Half}

\* forces handed to Trolley.apply_control
Controls == {Flt(0), Flt(50), Flt(-20)}

\* setpoints handed to ContinuousTankHeating.update
Setpoints == {Flt(300), Flt(400)}

\* 1/2, 3/4, 7/8, 1, 2
TankDts == {Half, <<3, -2>>, <<7, -3>>, Flt(1), Flt(2)}

Disturbances == {Flt(0), Flt(7)}

TrolleyArgs ==
    [cls : {"Trolley"}, mass : Masses, friction : Frictions, dt : TrolleyDts]

TankArgs == [cls : {"ContinuousTankHeating"}, dt : TankDts]

\* what cls.__init__ leaves in the object
New(a) ==
    IF a.cls = "Trolley" THEN Trolley_init(a.mass, a.friction, a.dt)
    ELSE Tank_init(a.dt)

NoObject == [class |-> "NoneType"]

NoStep == [made |-> FALSE, before |-> Zero, after |-> Zero]

Called(method, value) == [method |-> method, value |-> value]

None == <<>>

\* ------------------------------------------------------------------------
\* a caller that picks a plant class, constructs it and drives it
\* ------------------------------------------------------------------------

VARIABLES
    args,    \* the class and constructor arguments the caller chose
    status,  \* "new" before the constructor call, then "live" or "TypeError"
    self,    \* the object's fields
    twin,    \* the second object of a paired run
    ret,     \* the last call made and what it returned
    hist,    \* log of the state-changing calls made so far
    last     \* position before and after the latest apply_control

vars == <<args, status, self, twin, ret, hist, last>>

Logged(op, control_output) == [op |-> op, control_output |-> control_output]

Init ==
    /\ args \in TrolleyArgs \cup TankArgs
    /\ status = "new"
    /\ self = NoObject
    /\ twin = NoObject
    /\ ret = Called("none", None)
    /\ hist = <<>>
    /\ last = NoStep

\* cls(...) where every abstract method is overridden
Construct ==
    /\ status = "new"
    /\ Instantiable(args.cls)
    /\ status' = "live"
    /\ self' = New(args)
    /\ ret' = Called("__init__", None)
    /\ UNCHANGED <<args, twin, hist, last>>

\* cls(...) where an abstract method is left: TypeError, no object
ConstructTypeError ==
    /\ status = "new"
    /\ ~Instantiable(args.cls)
    /\ status' = "TypeError"
    /\ ret' = Called("__init__", None)
    /\ UNCHANGED <<args, self, twin, hist, last>>

IsTrolley == status = "live" /\ self.class = "Trolley"

ApplyControl ==
    /\ IsTrolley
    /\ Len(hist) < MaxCalls
    /\ \E control_output \in Controls, distrubance \in Disturbances :
          /\ self' = Trolley_apply_control(self, control_output, distrubance)
          /\ hist' = Append(hist, Logged("apply_control", control_output))
    /\ last' = [made |-> TRUE, before |-> self.position, after |-> self'.position]
    /\ ret' = Called("apply_control", None)
    /\ UNCHANGED <<args, status, twin>>

GetPosition ==
    /\ IsTrolley
    /\ ret' = Called("get_position", Trolley_get_position(self))
    /\ UNCHANGED <<args, status, self, twin, hist, last>>

GetU ==
    /\ IsTrolley
    /\ ret' = Called("get_U", Trolley_get_U(self))
    /\ UNCHANGED <<args, status, self, twin, hist, last>>

Reset ==
    /\ IsTrolley
    /\ Len(hist) < MaxCalls
    /\ self' = Trolley_reset(self)
    /\ hist' = Append(hist, Logged("reset", Zero))
    /\ ret' = Called("reset", None)
    /\ UNCHANGED <<args, status, twin, last>>

Next ==
    \/ Construct
    \/ ConstructTypeError
    \/ ApplyControl
    \/ GetPosition
    \/ GetU
    \/ Reset

Spec == Init /\ [][Next]_vars

\* ------------------------------------------------------------------------
\* ContinuousTankHeating.__init__, update and get_position as functions of
\* an object's fields: the state starts as __init__'s body leaves it
\* ------------------------------------------------------------------------

InitTank ==
    /\ args \in TankArgs
    /\ status = "live"
    /\ self = New(args)
    /\ twin = NoObject
    /\ ret = Called("__init__", None)
    /\ hist = <<>>
    /\ last = NoStep

Update ==
    /\ self.class = "ContinuousTankHeating"
    /\ Len(hist) < MaxTankCalls
    /\ \E control_output \in Setpoints, distrubance \in Disturbances :
          /\ self' = Tank_update(self, control_output, distrubance)
          /\ hist' = Append(hist, Logged("update", control_output))
    /\ last' = [made |-> TRUE, before |-> self.T, after |-> self'.T]
    /\ ret' = Called("update", None)
    /\ UNCHANGED <<args, status, twin>>

TankGetPosition ==
    /\ self.class = "ContinuousTankHeating"
    /\ ret' = Called("get_position", Tank_get_position(self))
    /\ UNCHANGED <<args, status, self, twin, hist, last>>

NextTank ==
    \/ Update
    \/ TankGetPosition

SpecTank == InitTank /\ [][NextTank]_vars

\* ------------------------------------------------------------------------
\* two runs from the same initial state, fed the same control values and
\* different disturbance values
\* ------------------------------------------------------------------------

LoggedPair(op, control_output, d1, d2) ==
    [op |-> op, control_output |-> control_output,
     distrubance |-> d1, twin_distrubance |-> d2]

InitTwin ==
    /\ args \in TrolleyArgs \cup TankArgs
    /\ status = "live"
    /\ self = New(args)
    /\ twin = New(args)
    /\ ret = Called("__init__", None)
    /\ hist = <<>>
    /\ last = NoStep

TwinApplyControl ==
    /\ self.class = "Trolley"
    /\ Len(hist) < MaxTwinCalls
    /\ \E control_output \in Controls, d1 \in Disturbances, d2 \in Disturbances :
          /\ d1 # d2
          /\ self' = Trolley_apply_control(self, control_output, d1)
          /\ twin' = Trolley_apply_control(twin, control_output, d2)
          /\ hist' = Append(hist, LoggedPair("apply_control", control_output, d1, d2))
    /\ last' = [made |-> TRUE, before |-> self.position, after |-> self'.position]
    /\ ret' = Called("apply_control", None)
    /\ UNCHANGED <<args, status>>

TwinUpdate ==
    /\ self.class = "ContinuousTankHeating"
    /\ Len(hist) < MaxTwinCalls
    /\ \E control_output \in Setpoints, d1 \in Disturbances, d2 \in Disturbances :
          /\ d1 # d2
          /\ self' = Tank_update(self, control_output, d1)
          /\ twin' = Tank_update(twin, control_output, d2)
          /\ hist' = Append(hist, LoggedPair("update", control_output, d1, d2))
    /\ last' = [made |-> TRUE, before |-> self.T, after |-> self'.T]
    /\ ret' = Called("update", None)
    /\ UNCHANGED <<args, status>>

NextTwin ==
    \/ TwinApplyControl
    \/ TwinUpdate

SpecTwin == InitTwin /\ [][NextTwin]_vars

\* ------------------------------------------------------------------------
\* reading the call log
\* ------------------------------------------------------------------------

LastOp(h) == IF h = <<>> THEN "none" ELSE h[Len(h)].op

\* the calls logged after the latest reset (all of them if there was none)
SinceReset(h) ==
    LET R == {i \in 1..Len(h) : h[i].op = "reset"}
        from == IF R = {} THEN 1 ELSE (CHOOSE i \in R : \A j \in R : j <= i) + 1
    IN SubSeq(h, from, Len(h))

AllZeroControl(h) == \A i \in 1..Len(h) : h[i].control_output = Zero

\* this step is a call of op that the log records
Logs(op) == Len(hist') = Len(hist) + 1 /\ LastOp(hist') = op

\* some apply_control moved the trolley and a reset came after it
ResetAfterMotion ==
    \E i, j \in 1..Len(hist) :
        /\ i < j
        /\ hist[i].op = "apply_control"
        /\ hist[i].control_output # Zero
        /\ hist[j].op = "reset"

\* ------------------------------------------------------------------------
\* claims checked under Spec
\* ------------------------------------------------------------------------

\* C1: both plant variants can be constructed and expose apply_control and
\* get_position, so a caller can drive either through those two alone.
C1_BothVariantsUsable ==
    status # "new" =>
        /\ status = "live"
        /\ {"apply_control", "get_position"} \subseteq ClassMethods(args.cls)

C3_DeltaIsLatestStep ==
    (IsTrolley /\ last.made) =>
        self.delta_position = FSub(last.after, last.before)

\* C3 amended: delta_position is that difference when the latest
\* state-changing call was an apply_control, and 0 after construction or
\* after a reset.
C3_DeltaIsLatestStepOrZero ==
    IsTrolley =>
        IF LastOp(hist) = "apply_control"
        THEN last.made /\ self.delta_position = FSub(last.after, last.before)
        ELSE self.delta_position = Zero

\* a step from a nonzero position that moved the trolley
C3_Witness ==
    /\ IsTrolley
    /\ LastOp(hist) = "apply_control"
    /\ last.before # Zero
    /\ last.after # last.before
    /\ ResetAfterMotion

\* C4: from a fresh or just reset trolley, any number of apply_control(0, 0)
\* leaves position = velocity = delta_position = 0.
C4_ZeroInputStationary ==
    (IsTrolley /\ AllZeroControl(SinceReset(hist))) =>
        /\ self.position = Zero
        /\ self.velocity = Zero
        /\ self.delta_position = Zero

\* two zero-force steps after a reset that followed motion
C4_Witness ==
    /\ IsTrolley
    /\ ResetAfterMotion
    /\ Len(SinceReset(hist)) >= 2
    /\ AllZeroControl(SinceReset(hist))
    /\ self.friction # Zero

C6_ResetZeroesAndKeeps ==
    [][Logs("reset") =>
        /\ self'.position = Zero
        /\ self'.velocity = Zero
        /\ self'.delta_position = Zero
        /\ self'.mass = self.mass
        /\ self'.friction = self.friction
        /\ self'.spring_constant = self.spring_constant
        /\ self'.dt = self.dt
        /\ self'.F = self.F
        /\ (LastOp(hist) = "reset" => self' = self)]_vars

\* two resets in a row after the trolley had moved
C6_Witness ==
    /\ IsTrolley
    /\ Len(hist) >= 3
    /\ hist[Len(hist)].op = "reset"
    /\ hist[Len(hist) - 1].op = "reset"
    /\ hist[Len(hist) - 2].op = "apply_control"
    /\ last.after # Zero

\* what get_U is claimed to return, and that it changes no field
GetUAsClaimed ==
    ret'.method = "get_U" =>
        /\ ret'.value[1] = Trolley_get_position(self')
        /\ ret'.value[2] = FDiv(self'.position, self'.dt)
        /\ ret'.value[3] = FDiv(self'.position, FMul(self'.dt, self'.dt))
        /\ self' = self

\* C9 as stated: get_U() returns (get_position(), position/dt,
\* position/dt^2); neither read changes a field; get_position() is the
\* state as of the latest apply_control, or the initial state if no
\* apply_control was made.
C9_ReadsAsStated ==
    [][/\ GetUAsClaimed
       /\ ret'.method = "get_position" =>
            /\ self' = self
            /\ ret'.value = IF last'.made THEN last'.after ELSE Zero]_vars

\* C9 amended: as stated, except that get_position() is the position left
\* by the latest apply_control or reset(), or the initial state if neither
\* was made.
C9_Reads ==
    [][/\ GetUAsClaimed
       /\ ret'.method = "get_position" =>
            /\ self' = self
            /\ ret'.value = IF LastOp(hist') = "apply_control"
                            THEN last'.after ELSE Zero]_vars

\* get_U has returned for a trolley away from the origin with dt = 1/2
C9_Witness ==
    /\ IsTrolley
    /\ ret.method = "get_U"
    /\ self.dt = Half
    /\ self.position # Zero
    /\ ret.value[2] # ret.value[1]
    /\ ret.value[3] # ret.value[2]

\* ------------------------------------------------------------------------
\* claims checked under SpecTank
\* ------------------------------------------------------------------------

AllSetpoint(h, Tq) == \A i \in 1..Len(h) : h[i].control_output = Tq

\* exact comparison of a float32 x = m * 2^e with the rational n/d, d > 0
AtMostRatio(x, n, d) ==
    IF x[2] >= 0 THEN d * x[1] * 2^x[2] <= n
    ELSE d * x[1] <= n * 2^(-x[2])

\* T is at most 3500/9, the fixed point of the update for Tq = 400:
\* (Tf/tau + Q*Tq) / (1/tau + Q) = (75 + 800) / 2.25, between 300 and 400
AtMostLimit400(T) == AtMostRatio(T, 3500, 9)

\* dt <= 8/9, where the Euler factor 1 - dt*(1/tau + Q)/(1 + epsilon)
\* = 1 - 1.125*dt is still nonnegative
SmallStep(dt) == AtMostRatio(dt, 8, 9)

MonotoneStep ==
    (Logs("update") /\ AllSetpoint(hist', Flt(400))) =>
        /\ FLeq(self.T, self'.T)
        /\ AtMostLimit400(self'.T)

====
